---- MODULE Spec2Model ----
(***************************************************************************)
(* Marketplace client (React + supabase-js) against the managed store      *)
(* declared by the SQL migration: products, cart_items, orders and         *)
(* order_items with their CHECK / UNIQUE constraints and row-level         *)
(* policies, the cart handlers of the buyer page, the CartModal, the       *)
(* seller's ProductModal and the checkout run of CheckoutModal.            *)
(* Every awaited store call is one step: the call's effect on the store    *)
(* together with the handler's code up to its next await.                  *)
(***************************************************************************)
EXTENDS Integers, Sequences, FiniteSets, TLC

\* ------------------------------------------------------------------ bounds
MaxAdds == 3         \* handleAddToCart calls over all buyers
MaxQty == 2          \* largest quantity of a cart line the store starts with
MaxStock == 2        \* largest stock a seller types into the product form
MaxEdits == 1        \* product edits over all sellers
MaxOrders == 2
MaxRetryOrders == 4
MaxCalls == 2       \* orders the store holds before no further run is submitted

\* ------------------------------------------------------------------- users
Buyers == {"b1", "b2"}
Sellers == {"s1", "s2"}
Users == Buyers \cup Sellers
ProductIds == {"p1", "p2", "p3"}
PaymentMethods == {"cod", "upi"}

VARIABLES
    products,     \* table products: id -> row
    cart_items,   \* table cart_items: set of rows
    orders,       \* table orders: set of rows
    order_items,  \* table order_items: set of rows
    atc,          \* per buyer: the handleAddToCart calls in flight
    view,         \* per buyer: which modal of the page is open
    cartView,     \* per buyer: CartModal's cartItems state
    ckItems,      \* per buyer: App's cartItems state, the items prop of CheckoutModal
    run,          \* per buyer: the handleSubmit call of CheckoutModal
    log,          \* history: the store calls issued by the buyer's current run
    writers,      \* history: per product, the users whose update changed the row
    adds,         \* history: handleAddToCart calls made so far
    edits,        \* history: product edits made so far
    cartLog,      \* history: per buyer, the cart writes issued and the adds completed
    statusBy,     \* history: the orders an updateOrderStatus changed, and the user it was
    chats,        \* table chats: set of rows
    messages,     \* table messages: set of rows
    hms,          \* per buyer: the handleMessageSeller calls in flight
    cm            \* per user: the state of the user's ChatModal

\* the messaging feature's part of the state
chatVars == <<chats, messages, hms, cm>>

\* the shop's part of the state
shopVars == <<products, cart_items, orders, order_items, atc, view, cartView,
              ckItems, run, log, writers, adds, edits, cartLog, statusBy>>

vars == <<products, cart_items, orders, order_items, atc, view, cartView,
          ckItems, run, log, writers, adds, edits, cartLog, statusBy,
          chats, messages, hms, cm>>

\* ----------------------------------------------------------------- helpers
Range(s) == {s[i] : i \in DOMAIN s}

\* all orderings of a finite set of rows (a SELECT without ORDER BY)
RECURSIVE Orderings(_)
Orderings(S) ==
    IF S = {} THEN {<<>>}
    ELSE UNION {{<<x>> \o rest : rest \in Orderings(S \ {x})} : x \in S}

\* an UPDATE's SET clause applied to a row
Merge(row, patch) ==
    [f \in DOMAIN row |-> IF f \in DOMAIN patch THEN patch[f] ELSE row[f]]

\* ------------------------------------------------- table products (store)
\* CHECK (price > 0), CHECK (stock_quantity >= 0)
ProductsCheck(row) == row.price > 0 /\ row.stock_quantity >= 0

ProductsUpdatePolicyOpen(uid, row) == TRUE

\* POLICY "Sellers can update own products": USING / WITH CHECK (seller_id = auth.uid())
ProductsUpdatePolicy(uid, row) == row.seller_id = uid

ProductsUpdateUnguarded(uid, id, patch) ==
    IF id \notin DOMAIN products
    THEN [rows |-> products, error |-> FALSE]
    ELSE [rows |-> [products EXCEPT ![id] = Merge(@, patch)], error |-> FALSE]

\* UPDATE products SET patch WHERE id = id, issued by uid: rows the policy hides
\* are not updated and raise no error; a new row that breaks a CHECK or the
\* policy's WITH CHECK raises an error and nothing is written.
ProductsUpdate(uid, id, patch) ==
    IF id \notin DOMAIN products \/ ~ProductsUpdatePolicy(uid, products[id])
    THEN [rows |-> products, error |-> FALSE]
    ELSE LET new == Merge(products[id], patch) IN
         IF ProductsCheck(new) /\ ProductsUpdatePolicy(uid, new)
         THEN [rows |-> [products EXCEPT ![id] = new], error |-> FALSE]
         ELSE [rows |-> products, error |-> TRUE]

\* ----------------------------------------------- table cart_items (store)
\* gen_random_uuid(): an id no row and no client snapshot holds
CartIdsInUse ==
    {r.id : r \in cart_items}
    \cup UNION {{l.id : l \in Range(cartView[b]) \cup Range(ckItems[b]) \cup Range(run[b].items)} : b \in Buyers}
    \cup UNION {{c.existing.id : c \in {x \in Range(atc[b]) : x.found}} : b \in Buyers}

NewCartId == CHOOSE n \in 1..(Cardinality(CartIdsInUse) + 1) : n \notin CartIdsInUse

CartItemsInsertNoUnique(uid, buyer_id, product_id, quantity) ==
    IF buyer_id = uid /\ quantity > 0 /\ product_id \in DOMAIN products
    THEN [rows |-> cart_items \cup
                   {[id |-> NewCartId, buyer_id |-> buyer_id,
                     product_id |-> product_id, quantity |-> quantity]},
          error |-> FALSE]
    ELSE [rows |-> cart_items, error |-> TRUE]

\* INSERT INTO cart_items: WITH CHECK (buyer_id = auth.uid()), CHECK (quantity > 0),
\* UNIQUE (buyer_id, product_id), product_id REFERENCES products
CartItemsInsert(uid, buyer_id, product_id, quantity) ==
    IF /\ buyer_id = uid
       /\ quantity > 0
       /\ product_id \in DOMAIN products
       /\ ~\E r \in cart_items : r.buyer_id = buyer_id /\ r.product_id = product_id
    THEN [rows |-> cart_items \cup {[id |-> NewCartId, buyer_id |-> buyer_id,
                                     product_id |-> product_id, quantity |-> quantity]},
          error |-> FALSE]
    ELSE [rows |-> cart_items, error |-> TRUE]

\* UPDATE cart_items SET quantity WHERE id = id: USING (buyer_id = auth.uid())
CartItemsUpdate(uid, id, quantity) ==
    LET hit == {r \in cart_items : r.id = id /\ r.buyer_id = uid} IN
    IF hit = {} THEN [rows |-> cart_items, error |-> FALSE]
    ELSE IF quantity > 0
         THEN [rows |-> (cart_items \ hit) \cup {[r EXCEPT !.quantity = quantity] : r \in hit},
               error |-> FALSE]
         ELSE [rows |-> cart_items, error |-> TRUE]

CartItemsDeleteCheckedOut(uid, buyer_id) ==
    [rows |-> {r \in cart_items : ~(/\ r.buyer_id = buyer_id
                                      /\ r.buyer_id = uid
                                      /\ \E l \in Range(run[uid].items) : l.id = r.id)},
     error |-> FALSE]

\* DELETE FROM cart_items WHERE buyer_id = buyer_id: USING (buyer_id = auth.uid())
CartItemsDelete(uid, buyer_id) ==
    [rows |-> {r \in cart_items : ~(r.buyer_id = buyer_id /\ r.buyer_id = uid)},
     error |-> FALSE]

\* DELETE FROM cart_items WHERE id = id: USING (buyer_id = auth.uid())
CartItemsDeleteById(uid, id) ==
    [rows |-> {r \in cart_items : ~(r.id = id /\ r.buyer_id = uid)}, error |-> FALSE]

\* -------------------------------------- tables orders, order_items (store)
OrderStatuses == {"pending", "confirmed", "shipped", "delivered", "cancelled"}
PaymentStatuses == {"pending", "paid", "refunded"}

\* gen_random_uuid() of a new order; the program deletes no order
NewOrderId == Cardinality(orders) + 1

OrdersInsertNoUnique(uid, row) ==
    IF row.buyer_id = uid /\ row.total_amount >= 0
    THEN LET new == [id |-> NewOrderId] @@ row IN
         [rows |-> orders \cup {new}, error |-> FALSE, data |-> new]
    ELSE [rows |-> orders, error |-> TRUE, data |-> [id |-> 0] @@ row]

\* INSERT INTO orders ... RETURNING *: WITH CHECK (buyer_id = auth.uid()),
\* order_number UNIQUE, CHECK (total_amount >= 0), the status CHECKs
OrdersInsert(uid, row) ==
    IF /\ row.buyer_id = uid
       /\ ~\E o \in orders : o.order_number = row.order_number
       /\ row.total_amount >= 0
       /\ row.status \in OrderStatuses
       /\ row.payment_status \in PaymentStatuses
    THEN LET new == [id |-> NewOrderId] @@ row IN
         [rows |-> orders \cup {new}, error |-> FALSE, data |-> new]
    ELSE [rows |-> orders, error |-> TRUE, data |-> [id |-> 0] @@ row]

\* an UPDATE of orders that no policy restricts
OrdersUpdateAnyone(uid, id, patch) ==
    [rows |-> {IF o.id = id THEN Merge(o, patch) ELSE o : o \in orders}, error |-> FALSE]

\* UPDATE orders SET patch WHERE id = id: POLICY "Sellers can update their
\* orders" USING / WITH CHECK (seller_id = auth.uid()), the CHECKs of the table
OrdersUpdate(uid, id, patch) ==
    LET hit == {o \in orders : o.id = id /\ o.seller_id = uid}
        new == {Merge(o, patch) : o \in hit}
    IN IF hit = {} THEN [rows |-> orders, error |-> FALSE]
       ELSE IF \A o \in new : /\ o.seller_id = uid
                               /\ o.status \in OrderStatuses
                               /\ o.payment_status \in PaymentStatuses
                               /\ o.total_amount >= 0
            THEN [rows |-> (orders \ hit) \cup new, error |-> FALSE]
            ELSE [rows |-> orders, error |-> TRUE]

OrderItemsInsertWithinStock(uid, rows) ==
    IF \A i \in DOMAIN rows :
          /\ \E o \in orders : o.id = rows[i].order_id /\ o.buyer_id = uid
          /\ rows[i].product_id \in DOMAIN products
          /\ rows[i].quantity > 0
          /\ rows[i].quantity <= products[rows[i].product_id].stock_quantity
    THEN [rows |-> order_items \cup
                   {[id |-> Cardinality(order_items) + i] @@ rows[i] : i \in DOMAIN rows},
          error |-> FALSE]
    ELSE [rows |-> order_items, error |-> TRUE]

\* INSERT INTO order_items (a list of rows, one statement): WITH CHECK (the order
\* exists and is the caller's), product_id REFERENCES products, CHECK (quantity > 0),
\* CHECK (price_per_unit > 0), CHECK (total_price >= 0)
OrderItemsInsert(uid, rows) ==
    IF \A i \in DOMAIN rows :
          /\ \E o \in orders : o.id = rows[i].order_id /\ o.buyer_id = uid
          /\ rows[i].product_id \in DOMAIN products
          /\ rows[i].quantity > 0
          /\ rows[i].price_per_unit > 0
          /\ rows[i].total_price >= 0
    THEN [rows |-> order_items \cup
                   {[id |-> Cardinality(order_items) + i] @@ rows[i] : i \in DOMAIN rows},
          error |-> FALSE]
    ELSE [rows |-> order_items, error |-> TRUE]

\* ------------------------------------------- DELETE FROM products (store)
\* a delete that no order item holds back
ProductsDeleteUnrestricted(uid, id) ==
    IF id \notin DOMAIN products \/ products[id].seller_id # uid
    THEN [products |-> products, cart_items |-> cart_items, order_items |-> order_items,
          chats |-> chats, messages |-> messages, error |-> FALSE]
    ELSE [products |-> [q \in DOMAIN products \ {id} |-> products[q]],
          cart_items |-> {r \in cart_items : r.product_id # id},
          order_items |-> order_items,
          chats |-> {c \in chats : c.product_id # id},
          messages |-> {m \in messages : \E c \in chats : c.id = m.chat_id /\ c.product_id # id},
          error |-> FALSE]

\* DELETE FROM products WHERE id = id, issued by uid: POLICY "Sellers can delete
\* own products" USING (seller_id = auth.uid()) hides the rows of others, which
\* are not deleted and raise no error; order_items.product_id is ON DELETE
\* RESTRICT, so a product with an order item raises an error; cart_items and
\* chats (and with a chat its messages) are ON DELETE CASCADE
ProductsDelete(uid, id) ==
    IF id \notin DOMAIN products \/ products[id].seller_id # uid
    THEN [products |-> products, cart_items |-> cart_items, order_items |-> order_items,
          chats |-> chats, messages |-> messages, error |-> FALSE]
    ELSE IF \E r \in order_items : r.product_id = id
    THEN [products |-> products, cart_items |-> cart_items, order_items |-> order_items,
          chats |-> chats, messages |-> messages, error |-> TRUE]
    ELSE [products |-> [q \in DOMAIN products \ {id} |-> products[q]],
          cart_items |-> {r \in cart_items : r.product_id # id},
          order_items |-> order_items,
          chats |-> {c \in chats : c.product_id # id},
          messages |-> {m \in messages : \E c \in chats : c.id = m.chat_id /\ c.product_id # id},
          error |-> FALSE]

\* ------------------------------------------------------ CartModal.loadCart
\* select *, product:products(*) from cart_items where buyer_id = uid,
\* under "Buyers can view own cart"
LoadCartRows(uid) ==
    {[id |-> r.id, buyer_id |-> r.buyer_id, product_id |-> r.product_id,
      quantity |-> r.quantity,
      product |-> [id |-> r.product_id,
                   seller_id |-> products[r.product_id].seller_id,
                   price |-> products[r.product_id].price,
                   stock_quantity |-> products[r.product_id].stock_quantity]]
     : r \in {x \in cart_items : x.buyer_id = uid /\ x.product_id \in DOMAIN products}}

\* --------------------------------------------------------- CheckoutModal
GroupOverwrite(acc, item) ==
    LET sid == item.product.seller_id IN
    IF \E i \in DOMAIN acc : acc[i].seller_id = sid
    THEN LET i == CHOOSE j \in DOMAIN acc : acc[j].seller_id = sid IN
         [acc EXCEPT ![i].items = <<item>>]
    ELSE Append(acc, [seller_id |-> sid, items |-> <<item>>])

\* the reducer of groupedBySeller: push the item on its seller's list, a new
\* key going after the keys already there (Object.entries order)
GroupStep(acc, item) ==
    LET sid == item.product.seller_id IN
    IF \E i \in DOMAIN acc : acc[i].seller_id = sid
    THEN LET i == CHOOSE j \in DOMAIN acc : acc[j].seller_id = sid IN
         [acc EXCEPT ![i].items = Append(@, item)]
    ELSE Append(acc, [seller_id |-> sid, items |-> <<item>>])

RECURSIVE GroupReduce(_, _)
GroupReduce(acc, items) ==
    IF items = <<>> THEN acc
    ELSE GroupReduce(GroupStep(acc, Head(items)), Tail(items))

groupedBySeller(items) == GroupReduce(<<>>, items)

\* item.product.price * item.quantity
LineTotal(item) == item.product.price * item.quantity

\* sellerItems.reduce((sum, item) => sum + item.product.price * item.quantity, 0)
RECURSIVE totalAmount(_)
totalAmount(sellerItems) ==
    IF sellerItems = <<>> THEN 0
    ELSE LineTotal(Head(sellerItems)) + totalAmount(Tail(sellerItems))

\* `ORD-${Date.now()}-${random}`: a number no order holds, or one that an
\* earlier order already holds
OrderNumberChoices == {o.order_number : o \in orders} \cup {Cardinality(orders) + 1}

PaymentStatusAlwaysPending(paymentMethod) == "pending"

\* formData.paymentMethod === 'cod' ? 'pending' : 'paid'
PaymentStatusOf(paymentMethod) == IF paymentMethod = "cod" THEN "pending" ELSE "paid"

\* the row handleSubmit inserts into orders
OrderRow(uid, sellerId, sellerItems, orderNumber, paymentMethod) ==
    [order_number |-> orderNumber,
     buyer_id |-> uid,
     seller_id |-> sellerId,
     total_amount |-> totalAmount(sellerItems),
     status |-> "pending",
     payment_status |-> PaymentStatusOf(paymentMethod),
     payment_method |-> paymentMethod,
     shipping_address |-> <<"address", uid>>,
     billing_address |-> <<"address", uid>>]

orderItemsAtStoredPrice(orderId, sellerItems) ==
    [i \in DOMAIN sellerItems |->
        [order_id |-> orderId,
         product_id |-> sellerItems[i].product_id,
         quantity |-> sellerItems[i].quantity,
         price_per_unit |-> products[sellerItems[i].product_id].price,
         total_price |-> products[sellerItems[i].product_id].price * sellerItems[i].quantity]]

\* sellerItems.map(item => ({order_id, product_id, quantity, price_per_unit, total_price}))
orderItems(orderId, sellerItems) ==
    [i \in DOMAIN sellerItems |->
        [order_id |-> orderId,
         product_id |-> sellerItems[i].product_id,
         quantity |-> sellerItems[i].quantity,
         price_per_unit |-> sellerItems[i].product.price,
         total_price |-> LineTotal(sellerItems[i])]]

\* stock_quantity: item.product.stock_quantity - item.quantity
NewStock(item) == item.product.stock_quantity - item.quantity

\* -------------------------------------------------------------------- Init
\* signals is what the run has told its caller and the user so far: the
\* callbacks called and the alerts raised, in order.
\* cart0 and prev are history: the buyer's cart rows when the run was
\* submitted; and, when the run resubmits the items of a run that failed in its
\* seller group k >= 2, that k and the orders the failed run created
NoPrev == [k |-> 0, orders |-> {}]

\* const { user } = useAuth() when nobody is signed in
NoUser == "nobody"

\* user is history too: the user the form's last submit saw
IdleRun == [pc |-> "idle", items |-> <<>>, gi |-> 0, li |-> 0, orderNumber |-> 0, order_id |-> 0,
            loading |-> FALSE, paymentMethod |-> "cod", signals |-> <<>>,
            cart0 |-> {}, prev |-> NoPrev, user |-> NoUser]

\* no handleAddToCart call is in flight
IdleCall == <<>>

\* the seeded catalog: two sellers, s1 with two products
\* sent: the quantities the buyer's handleAddToCart and updateQuantity calls
\* have sent in a cart_items insert or update; added: per product, the buyer's
\* handleAddToCart calls that completed without an error
NoCartLog == [sent |-> {}, added |-> [p \in ProductIds |-> 0]]

\* useState of ChatModal: no chats listed, no chat selected, no messages shown,
\* not loading. subs are the realtime channels the modal has subscribed and not
\* removed, notif the notifications the store has sent and the modal has not
\* handled yet, loads the loadMessages calls in flight. shown, last and failed
\* are history: the chat of the last setMessages, the last loadMessages call
\* that completed without an error (the chat, and the messages its
\* markMessagesAsRead was answered), and whether a store call of a loadMessages
\* call has failed.
NoLoad == [chatId |-> 0, seen |-> {}]

IdleModal == [isOpen |-> FALSE, chats |-> {}, selectedChat |-> 0, messages |-> <<>>, loading |-> FALSE,
              subs |-> {}, notif |-> <<>>, loads |-> <<>>, shown |-> 0, last |-> NoLoad,
              failed |-> FALSE]

\* no chat, no message, no call in flight
InitChat ==
    /\ chats = {}
    /\ messages = {}
    /\ hms = [b \in Buyers |-> <<>>]
    /\ cm = [u \in Users |-> IdleModal]

SeedProducts ==
    [p \in ProductIds |->
        IF p = "p1" THEN [seller_id |-> "s1", price |-> 199, stock_quantity |-> 2]
        ELSE IF p = "p2" THEN [seller_id |-> "s2", price |-> 299, stock_quantity |-> 1]
        ELSE [seller_id |-> "s1", price |-> 149, stock_quantity |-> 1]]

Init ==
    /\ products = SeedProducts
    /\ cart_items = {}
    /\ orders = {}
    /\ order_items = {}
    /\ atc = [b \in Buyers |-> IdleCall]
    /\ view = [b \in Buyers |-> "page"]
    /\ cartView = [b \in Buyers |-> <<>>]
    /\ ckItems = [b \in Buyers |-> <<>>]
    /\ run = [b \in Buyers |-> IdleRun]
    /\ log = [b \in Buyers |-> <<>>]
    /\ writers = [p \in ProductIds |-> {}]
    /\ adds = 0
    /\ edits = 0
    /\ cartLog = [b \in Buyers |-> NoCartLog]
    /\ statusBy = {}
    /\ InitChat

\* ------------------------------------------- BuyerDashboard.handleAddToCart
\* the select of the buyer's line for the product (maybeSingle)
AddToCartSelect(b, p) ==
    /\ view[b] = "page"
    /\ Len(atc[b]) < MaxCalls
    /\ p \in DOMAIN products
    /\ adds < MaxAdds
    /\ adds' = adds + 1
    /\ LET hit == {r \in cart_items : r.buyer_id = b /\ r.product_id = p} IN
       /\ atc' = [atc EXCEPT ![b] = Append(@,
                    IF hit = {}
                    THEN [product_id |-> p, found |-> FALSE,
                          existing |-> [id |-> 0, quantity |-> 0]]
                    ELSE LET r == CHOOSE x \in hit : TRUE IN
                         [product_id |-> p, found |-> TRUE,
                          existing |-> [id |-> r.id, quantity |-> r.quantity]])]
    /\ UNCHANGED <<chatVars, cartLog, statusBy>>
    /\ UNCHANGED <<products, cart_items, orders, order_items, view, cartView,
                   ckItems, run, log, writers, edits>>

\* the update of the line found (quantity + 1) or the insert of a new line
\* (quantity 1). net = FALSE, here and below, is a call that fails before the
\* store applies it (the network, a timeout): it returns an error.
AddToCartWrite(b, net) ==
    /\ \E i \in DOMAIN atc[b] :
         LET c == atc[b][i]
             res == IF c.found
                    THEN CartItemsUpdate(b, c.existing.id, c.existing.quantity + 1)
                    ELSE CartItemsInsert(b, b, c.product_id, 1)
         IN /\ cart_items' = IF net THEN res.rows ELSE cart_items
            /\ atc' = [atc EXCEPT ![b] = SubSeq(@, 1, i - 1) \o SubSeq(@, i + 1, Len(@))]
            /\ cartLog' = [cartLog EXCEPT
                  ![b].sent = @ \cup {[by |-> "handleAddToCart",
                                       call |-> IF c.found THEN "update" ELSE "insert",
                                       quantity |-> IF c.found THEN c.existing.quantity + 1
                                                    ELSE 1]},
                  ![b].added[c.product_id] = IF net /\ ~res.error THEN @ + 1 ELSE @]
    /\ UNCHANGED <<chatVars, statusBy>>
    /\ UNCHANGED <<products, orders, order_items, view, cartView, ckItems, run,
                   log, writers, adds, edits>>

\* ---------------------------------------------------------------- CartModal
\* the cart button opens the modal, whose effect runs loadCart: the rows come
\* in an order the query does not fix
OpenCart(b) ==
    /\ view[b] = "page"
    /\ view' = [view EXCEPT ![b] = "cart"]
    /\ \E rows \in Orderings(LoadCartRows(b)) :
         cartView' = [cartView EXCEPT ![b] = rows]
    /\ UNCHANGED <<chatVars, cartLog, statusBy>>
    /\ UNCHANGED <<products, cart_items, orders, order_items, atc, ckItems, run,
                   log, writers, adds, edits>>

\* cartItems is read only while the modal is open and the next open loads it
\* anew, so the closed modal's list is not kept
CloseCart(b) ==
    /\ view[b] = "cart"
    /\ view' = [view EXCEPT ![b] = "page"]
    /\ cartView' = [cartView EXCEPT ![b] = <<>>]
    /\ UNCHANGED <<chatVars, cartLog, statusBy>>
    /\ UNCHANGED <<products, cart_items, orders, order_items, atc,
                   ckItems, run, log, writers, adds, edits>>

\* an updateQuantity that sends any quantity
QuantityNeverTooLow(newQuantity) == FALSE

\* if (newQuantity < 1) return
QuantityTooLow(newQuantity) == newQuantity < 1

\* the - and + buttons of a line: updateQuantity(item.id, item.quantity -/+ 1),
\* which returns at once for a quantity below 1; after an update without error
\* the cart is loaded anew
UpdateQuantity(b, i, d, net) ==
    /\ view[b] = "cart"
    /\ i \in DOMAIN cartView[b]
    /\ cartView[b][i].quantity + d <= MaxQty
    /\ IF QuantityTooLow(cartView[b][i].quantity + d)
       THEN UNCHANGED <<products, cart_items, cartView, cartLog>>
       ELSE LET res == CartItemsUpdate(b, cartView[b][i].id, cartView[b][i].quantity + d) IN
            /\ cart_items' = IF net THEN res.rows ELSE cart_items
            /\ UNCHANGED products
            /\ cartLog' = [cartLog EXCEPT
                  ![b].sent = @ \cup {[by |-> "updateQuantity", call |-> "update",
                                       quantity |-> cartView[b][i].quantity + d]}]
            /\ IF ~net \/ res.error
               THEN cartView' = cartView
               ELSE \E rows \in Orderings(LoadCartRows(b)') :
                       cartView' = [cartView EXCEPT ![b] = rows]
    /\ UNCHANGED <<chatVars, statusBy>>
    /\ UNCHANGED <<orders, order_items, atc, view, ckItems, run, log, writers,
                   adds, edits>>

\* the trash button of a line: removeItem(item.id); after a delete without
\* error the cart is loaded anew
RemoveItem(b, i, net) ==
    /\ view[b] = "cart"
    /\ i \in DOMAIN cartView[b]
    /\ LET res == CartItemsDeleteById(b, cartView[b][i].id) IN
         /\ cart_items' = IF net THEN res.rows ELSE cart_items
         /\ UNCHANGED products
         /\ IF ~net \/ res.error
            THEN cartView' = cartView
            ELSE \E rows \in Orderings(LoadCartRows(b)') :
                    cartView' = [cartView EXCEPT ![b] = rows]
    /\ UNCHANGED <<chatVars, cartLog, statusBy>>
    /\ UNCHANGED <<orders, order_items, atc, view, ckItems, run, log, writers,
                   adds, edits>>

\* "Proceed to Checkout": onCheckout(cartItems) -> App.handleCheckout
HandleCheckout(b) ==
    /\ view[b] = "cart"
    /\ Len(cartView[b]) > 0
    /\ ckItems' = [ckItems EXCEPT ![b] = cartView[b]]
    /\ cartView' = [cartView EXCEPT ![b] = <<>>]
    /\ view' = [view EXCEPT ![b] = "checkout"]
    /\ UNCHANGED <<chatVars, cartLog, statusBy>>
    /\ UNCHANGED <<products, cart_items, orders, order_items, atc, run,
                   log, writers, adds, edits>>

\* ------------------------------------------------ CheckoutModal.handleSubmit
GroupsLastFirst(b) ==
    LET g == groupedBySeller(run[b].items) IN [i \in 1..Len(g) |-> g[Len(g) + 1 - i]]

\* for (const [sellerId, sellerItems] of Object.entries(groupedBySeller))
Groups(b) == groupedBySeller(run[b].items)

LogCall(b, call, err, ref) ==
    log' = [log EXCEPT ![b] = Append(@, [call |-> call, err |-> err, ref |-> ref])]

\* the orders the buyer's current run created, by id
RunOrders(b) ==
    {log[b][k].ref : k \in {j \in DOMAIN log[b] :
                              log[b][j].call = "orders.insert" /\ ~log[b][j].err}}

FailedStillLoading(r) == [r EXCEPT !.pc = "failed", !.signals = Append(@, "alert")]

FailedAfterSuccess(r) ==
    [r EXCEPT !.pc = "failed", !.loading = FALSE, !.signals = @ \o <<"onSuccess", "alert">>]

\* catch: alert('Failed to create order. Please try again.'); finally: setLoading(false)
Failed(r) == [r EXCEPT !.pc = "failed", !.loading = FALSE, !.signals = Append(@, "alert")]

CartClearedInCatch(b) == CartItemsDelete(b, b).rows

\* the catch and finally blocks issue no store call: the cart stays as it is
CartAfterCatch(b) == cart_items

\* a submit button that is never disabled
SubmitNeverDisabled(b) == FALSE

\* <button type="submit" disabled={loading}>
SubmitDisabled(b) == run[b].loading

\* submit of the form with nobody signed in: if (!user) return, before
\* setLoading(true) and before any store call
SubmitSignedOut(b) ==
    /\ view[b] = "checkout"
    /\ ~SubmitDisabled(b)
    /\ run' = [run EXCEPT ![b].user = NoUser]
    /\ UNCHANGED <<chatVars, cartLog, statusBy>>
    /\ UNCHANGED <<products, cart_items, orders, order_items, atc, view, cartView,
                   ckItems, log, writers, adds, edits>>

\* submit of the form by the signed-in buyer b: setLoading(true) and the loop's
\* first iteration up to the order insert
Submit(b, pm) ==
    /\ view[b] = "checkout"
    /\ ~SubmitDisabled(b)
    /\ run' = [run EXCEPT ![b] = [pc |-> "order", items |-> ckItems[b], gi |-> 1,
                                  li |-> 0, orderNumber |-> 0, order_id |-> 0,
                                  loading |-> TRUE,
                                  paymentMethod |-> pm, signals |-> <<>>,
                                  cart0 |-> {r \in cart_items : r.buyer_id = b},
                                  user |-> b,
                                  prev |-> IF /\ run[b].pc = "failed"
                                              /\ run[b].gi >= 2
                                              /\ run[b].items = ckItems[b]
                                           THEN [k |-> run[b].gi, orders |-> RunOrders(b)]
                                           ELSE NoPrev]]
    /\ log' = [log EXCEPT ![b] = <<>>]
    /\ UNCHANGED <<chatVars, cartLog, statusBy>>
    /\ UNCHANGED <<products, cart_items, orders, order_items, atc, view, cartView,
                   ckItems, writers, adds, edits>>

\* await supabase.from('orders').insert({...}).select().single()
InsertOrder(b, net) ==
    /\ run[b].pc = "order"
    /\ \E orderNumber \in OrderNumberChoices :
         LET g == Groups(b)[run[b].gi]
             res == OrdersInsert(b, OrderRow(b, g.seller_id, g.items, orderNumber,
                                             run[b].paymentMethod))
             err == ~net \/ res.error
         IN /\ orders' = IF err THEN orders ELSE res.rows
            /\ run' = [run EXCEPT ![b] =
                         IF err THEN Failed([@ EXCEPT !.orderNumber = orderNumber])
                         ELSE [@ EXCEPT !.pc = "items", !.orderNumber = orderNumber,
                                        !.order_id = res.data.id]]
            /\ LogCall(b, "orders.insert", err, IF err THEN 0 ELSE res.data.id)
            /\ cart_items' = IF err THEN CartAfterCatch(b) ELSE cart_items
    /\ UNCHANGED <<chatVars, cartLog, statusBy>>
    /\ UNCHANGED <<products, order_items, atc, view, cartView, ckItems,
                   writers, adds, edits>>

\* await supabase.from('order_items').insert(orderItems)
InsertItems(b, net) ==
    /\ run[b].pc = "items"
    /\ LET g == Groups(b)[run[b].gi]
             res == OrderItemsInsert(b, orderItems(run[b].order_id, g.items))
             err == ~net \/ res.error
         IN /\ order_items' = IF err THEN order_items ELSE res.rows
            /\ run' = [run EXCEPT ![b] =
                         IF err THEN Failed(@) ELSE [@ EXCEPT !.pc = "stock", !.li = 1]]
            /\ LogCall(b, "order_items.insert", err, run[b].order_id)
            /\ cart_items' = IF err THEN CartAfterCatch(b) ELSE cart_items
    /\ UNCHANGED <<chatVars, cartLog, statusBy>>
    /\ UNCHANGED <<products, orders, atc, view, cartView, ckItems,
                   writers, adds, edits>>

\* await supabase.from('products').update({stock_quantity}).eq('id', item.product_id):
\* the result is not looked at
UpdateStock(b, net) ==
    /\ run[b].pc = "stock"
    /\ LET g == Groups(b)[run[b].gi]
             item == g.items[run[b].li]
             res == ProductsUpdate(b, item.product_id, [stock_quantity |-> NewStock(item)])
             err == ~net \/ res.error
         IN /\ products' = IF net THEN res.rows ELSE products
            /\ writers' = IF products' # products
                          THEN [writers EXCEPT ![item.product_id] = @ \cup {b}]
                          ELSE writers
            /\ LogCall(b, "products.update", err, item.product_id)
            /\ run' = [run EXCEPT ![b] =
                         IF run[b].li < Len(g.items) THEN [@ EXCEPT !.li = @ + 1]
                         ELSE IF run[b].gi < Len(Groups(b))
                              THEN [@ EXCEPT !.pc = "order", !.gi = @ + 1, !.li = 0]
                              ELSE [@ EXCEPT !.pc = "clear"]]
    /\ UNCHANGED <<chatVars, cartLog, statusBy>>
    /\ UNCHANGED <<cart_items, orders, order_items, atc, view, cartView, ckItems,
                   adds, edits>>

\* await supabase.from('cart_items').delete().eq('buyer_id', user.id) (the result
\* is not looked at); onSuccess(); onClose(); finally setLoading(false)
ClearCart(b, net) ==
    /\ run[b].pc = "clear"
    /\ LET res == CartItemsDelete(b, b) IN
         /\ cart_items' = IF net THEN res.rows ELSE cart_items
         /\ LogCall(b, "cart_items.delete", ~net \/ res.error, b)
    /\ run' = [run EXCEPT ![b] = [@ EXCEPT !.pc = "done", !.loading = FALSE,
                                               !.signals = @ \o <<"onSuccess", "onClose">>]]
    /\ view' = [view EXCEPT ![b] = IF @ = "checkout" THEN "page" ELSE @]
    /\ ckItems' = [ckItems EXCEPT ![b] = IF view[b] = "checkout" THEN <<>> ELSE @]
    /\ UNCHANGED <<chatVars, cartLog, statusBy>>
    /\ UNCHANGED <<products, orders, order_items, atc, cartView, writers, adds, edits>>

\* ------------------------------------------------- ProductModal.handleSubmit
\* the product form of the seller's own product, submitted with a price (min 0)
\* and a stock (min 0)

EditProduct(s, p, price, stock, net) ==
    /\ edits < MaxEdits
    /\ p \in DOMAIN products
    /\ products[p].seller_id = s
    /\ LET res == ProductsUpdate(s, p, [price |-> price, stock_quantity |-> stock]) IN
         /\ products' = IF net THEN res.rows ELSE products
         /\ writers' = IF products' # products
                       THEN [writers EXCEPT ![p] = @ \cup {s}]
                       ELSE writers
    /\ edits' = edits + 1
    /\ UNCHANGED <<chatVars, cartLog, statusBy>>
    /\ UNCHANGED <<cart_items, orders, order_items, atc, view, cartView, ckItems,
                   run, log, adds>>

\* ------------------------------------------ SellerDashboard.updateOrderStatus
StatusPatchResettingTotal(status) == [status |-> status, total_amount |-> 0]

\* .update({ status })
StatusPatch(status) == [status |-> status]

\* updateOrderStatus(orderId, status) called by user s with the id of an order
\* in the store and a status of the select: the function checks nothing itself
UpdateOrderStatus(s, orderId, status, net) ==
    /\ edits < MaxEdits
    /\ \E o \in orders : o.id = orderId
    /\ LET res == OrdersUpdate(s, orderId, StatusPatch(status)) IN
         /\ orders' = IF net THEN res.rows ELSE orders
         /\ statusBy' = IF net /\ res.rows # orders
                        THEN statusBy \cup {[id |-> orderId, by |-> s]}
                        ELSE statusBy
    /\ edits' = edits + 1
    /\ UNCHANGED <<chatVars, cartLog>>
    /\ UNCHANGED <<products, cart_items, order_items, atc, view, cartView, ckItems,
                   run, log, writers, adds>>

\* handleDelete(id) of the seller's product list, once confirmed: the delete;
\* its error is thrown and logged
DeleteProduct(s, p, net) ==
    /\ p \in DOMAIN products
    /\ LET res == ProductsDelete(s, p) IN
         /\ products' = IF net THEN res.products ELSE products
         /\ cart_items' = IF net THEN res.cart_items ELSE cart_items
         /\ order_items' = IF net THEN res.order_items ELSE order_items
         /\ chats' = IF net THEN res.chats ELSE chats
         /\ messages' = IF net THEN res.messages ELSE messages
    /\ UNCHANGED <<orders, atc, view, cartView, ckItems, run, log, writers, adds, edits,
                   cartLog, statusBy, hms, cm>>

\* -------------------------------------------------------------------- Next
\* the orders table has room for the orders of the run the buyer would submit
OrderRoom(b, cap) == Cardinality(orders) + Len(groupedBySeller(ckItems[b])) <= cap

\* One buyer's session over the whole catalog: carts of several lines and
\* sellers, both payment methods, every store call of a run failing or not.
\* The buyer leaves the checkout modal open until the run closes it.
FlowBuyers == {"b1"}

Next ==
    \/ \E b \in FlowBuyers, p \in ProductIds : atc[b] = IdleCall /\ AddToCartSelect(b, p)
    \/ \E b \in FlowBuyers, net \in BOOLEAN : AddToCartWrite(b, net)
    \/ \E b \in FlowBuyers : OpenCart(b)
    \/ \E b \in FlowBuyers : CloseCart(b)
    \/ \E b \in FlowBuyers : HandleCheckout(b)
    \/ \E b \in FlowBuyers, pm \in PaymentMethods : OrderRoom(b, MaxOrders) /\ Submit(b, pm)
    \/ \E b \in FlowBuyers, net \in BOOLEAN : InsertOrder(b, net)
    \/ \E b \in FlowBuyers, net \in BOOLEAN : InsertItems(b, net)
    \/ \E b \in FlowBuyers, net \in BOOLEAN : UpdateStock(b, net)
    \/ \E b \in FlowBuyers, net \in BOOLEAN : ClearCart(b, net)

Spec == Init /\ [][Next]_vars

\* the same session when every store call of a run returns: the step of a run
\* in progress, the return of its awaited call, is eventually taken
RunStep(b) ==
    \E net \in BOOLEAN :
        InsertOrder(b, net) \/ InsertItems(b, net) \/ UpdateStock(b, net) \/ ClearCart(b, net)

SpecLive == Spec /\ \A b \in FlowBuyers : WF_vars(RunStep(b))

\* Two buyers' sessions and the seller's product form on one product: each
\* buyer's cart holds one line of the product when the sessions start, and the
\* sessions run concurrently, each store call being one step.
StockProduct == "p1"

InitStock ==
    /\ products = SeedProducts
    /\ \E q1 \in 1..MaxQty, q2 \in 1..MaxQty :
         cart_items = {[id |-> 1, buyer_id |-> "b1", product_id |-> StockProduct, quantity |-> q1],
                       [id |-> 2, buyer_id |-> "b2", product_id |-> StockProduct, quantity |-> q2]}
    /\ orders = {}
    /\ order_items = {}
    /\ atc = [b \in Buyers |-> IdleCall]
    /\ view = [b \in Buyers |-> "page"]
    /\ cartView = [b \in Buyers |-> <<>>]
    /\ ckItems = [b \in Buyers |-> <<>>]
    /\ run = [b \in Buyers |-> IdleRun]
    /\ log = [b \in Buyers |-> <<>>]
    /\ writers = [p \in ProductIds |-> {}]
    /\ adds = 0
    /\ edits = 0
    /\ cartLog = [b \in Buyers |-> NoCartLog]
    /\ statusBy = {}
    /\ InitChat

\* the price field of the form: 0, the product's price, or a new price
FormPrices(p) == {0, products[p].price, products[p].price + 100}

NextStock ==
    \/ \E b \in Buyers : OpenCart(b)
    \/ \E b \in Buyers : CloseCart(b)
    \/ \E b \in Buyers : HandleCheckout(b)
    \/ \E b \in Buyers : OrderRoom(b, MaxOrders) /\ Submit(b, "cod")
    \/ \E b \in Buyers : InsertOrder(b, TRUE)
    \/ \E b \in Buyers : InsertItems(b, TRUE)
    \/ \E b \in Buyers : UpdateStock(b, TRUE)
    \/ \E b \in Buyers : ClearCart(b, TRUE)
    \/ \E s \in Sellers, price \in FormPrices(StockProduct), stock \in 0..MaxStock :
          EditProduct(s, StockProduct, price, stock, TRUE)
    \/ \E s \in Sellers, orderId \in 1..MaxOrders, status \in OrderStatuses :
          UpdateOrderStatus(s, orderId, status, TRUE)

SpecStock == InitStock /\ [][NextStock]_vars

\* The two buyers' sessions on one product while a seller deletes it: every
\* interleaving of the checkout runs and the delete, every call failing or not.
NextDelete ==
    \/ \E b \in Buyers : OpenCart(b)
    \/ \E b \in Buyers : CloseCart(b)
    \/ \E b \in Buyers : HandleCheckout(b)
    \/ \E b \in Buyers : OrderRoom(b, MaxOrders) /\ Submit(b, "cod")
    \/ \E b \in Buyers, net \in BOOLEAN : InsertOrder(b, net)
    \/ \E b \in Buyers, net \in BOOLEAN : InsertItems(b, net)
    \/ \E b \in Buyers, net \in BOOLEAN : UpdateStock(b, net)
    \/ \E b \in Buyers, net \in BOOLEAN : ClearCart(b, net)
    \/ \E s \in Sellers, p \in ProductIds, net \in BOOLEAN : DeleteProduct(s, p, net)

SpecDelete == InitStock /\ [][NextDelete]_vars

\* One buyer's session whose cart holds a line of each seller when it starts:
\* runs that fail in their second seller group and their resubmissions.
InitRetry ==
    /\ products = SeedProducts
    /\ \E q \in 1..MaxQty :
         cart_items = {[id |-> 1, buyer_id |-> "b1", product_id |-> "p1", quantity |-> q],
                       [id |-> 2, buyer_id |-> "b1", product_id |-> "p2", quantity |-> 1]}
    /\ orders = {}
    /\ order_items = {}
    /\ atc = [b \in Buyers |-> IdleCall]
    /\ view = [b \in Buyers |-> "page"]
    /\ cartView = [b \in Buyers |-> <<>>]
    /\ ckItems = [b \in Buyers |-> <<>>]
    /\ run = [b \in Buyers |-> IdleRun]
    /\ log = [b \in Buyers |-> <<>>]
    /\ writers = [p \in ProductIds |-> {}]
    /\ adds = 0
    /\ edits = 0
    /\ cartLog = [b \in Buyers |-> NoCartLog]
    /\ statusBy = {}
    /\ InitChat

NextRetry ==
    \/ \E b \in FlowBuyers : OpenCart(b)
    \/ \E b \in FlowBuyers : CloseCart(b)
    \/ \E b \in FlowBuyers : HandleCheckout(b)
    \/ \E b \in FlowBuyers, pm \in PaymentMethods : OrderRoom(b, MaxRetryOrders) /\ Submit(b, pm)
    \/ \E b \in FlowBuyers : SubmitSignedOut(b)
    \/ \E b \in FlowBuyers, net \in BOOLEAN : InsertOrder(b, net)
    \/ \E b \in FlowBuyers, net \in BOOLEAN : InsertItems(b, net)
    \/ \E b \in FlowBuyers, net \in BOOLEAN : UpdateStock(b, net)
    \/ \E b \in FlowBuyers, net \in BOOLEAN : ClearCart(b, net)

SpecRetry == InitRetry /\ [][NextRetry]_vars

\* One buyer's session, adds to the cart included, while the other buyer's
\* cart holds a line: the buyer's cart can hold lines that the items of the
\* checkout do not, and the cart delete can fail.
NextClear ==
    \/ \E b \in FlowBuyers, p \in ProductIds : atc[b] = IdleCall /\ AddToCartSelect(b, p)
    \/ \E b \in FlowBuyers : AddToCartWrite(b, TRUE)
    \/ \E b \in FlowBuyers : OpenCart(b)
    \/ \E b \in FlowBuyers : CloseCart(b)
    \/ \E b \in FlowBuyers : HandleCheckout(b)
    \/ \E b \in FlowBuyers : OrderRoom(b, MaxOrders) /\ Submit(b, "cod")
    \/ \E b \in FlowBuyers : InsertOrder(b, TRUE)
    \/ \E b \in FlowBuyers : InsertItems(b, TRUE)
    \/ \E b \in FlowBuyers : UpdateStock(b, TRUE)
    \/ \E b \in FlowBuyers, net \in BOOLEAN : ClearCart(b, net)

SpecClear == InitStock /\ [][NextClear]_vars

\* Two buyers' cart sessions on two products: adds to the cart, up to
\* MaxCalls of a buyer in flight at once (a second click before the first
\* call returned), and the quantity and trash buttons of the cart modal, each
\* store call failing or not.
CartProducts == {"p1", "p2"}

NextCart ==
    \/ \E b \in Buyers, p \in CartProducts : AddToCartSelect(b, p)
    \/ \E b \in Buyers, net \in BOOLEAN : AddToCartWrite(b, net)
    \/ \E b \in Buyers : OpenCart(b)
    \/ \E b \in Buyers : CloseCart(b)
    \/ \E b \in Buyers, i \in 1..Cardinality(CartProducts), d \in {-1, 1}, net \in BOOLEAN :
          UpdateQuantity(b, i, d, net)
    \/ \E b \in Buyers, i \in 1..Cardinality(CartProducts), net \in BOOLEAN :
          RemoveItem(b, i, net)

SpecCart == Init /\ [][NextCart]_vars

\* The buyers' product pages alone: handleAddToCart calls that overlap, and
\* nothing else that writes a cart.
NextAdd ==
    \/ \E b \in Buyers, p \in CartProducts : AddToCartSelect(b, p)
    \/ \E b \in Buyers, net \in BOOLEAN : AddToCartWrite(b, net)

SpecAdd == Init /\ [][NextAdd]_vars

\* ================================================================ messaging
MaxChats == 3
MaxChatCalls == 2
MaxMessages == 2
MaxLoads == 2

\* a NULL column
Null == "null"

\* now(): the messages created so far
Now == Cardinality(messages)

\* ------------------------------------------------------ table chats (store)
\* POLICY "Participants can view their chats", "Users can create chats",
\* "Participants can update their chats": buyer_id = auth.uid() OR seller_id = auth.uid()
ChatsPolicy(uid, row) == row.buyer_id = uid \/ row.seller_id = uid

\* SELECT * FROM chats as uid
ChatsSelect(uid) == {c \in chats : ChatsPolicy(uid, c)}

\* gen_random_uuid(): an id no row and no client holds
ChatIdsInUse ==
    {c.id : c \in chats}
    \cup UNION {cm[u].chats \cup cm[u].subs \cup {cm[u].selectedChat} : u \in Users}

NewChatId == CHOOSE n \in 1..(Cardinality(ChatIdsInUse) + 1) : n \notin ChatIdsInUse

\* INSERT INTO chats: the policy's WITH CHECK, product_id REFERENCES products,
\* UNIQUE (buyer_id, seller_id, order_id), for which two NULL order_ids differ
ChatsInsert(uid, row) ==
    IF /\ ChatsPolicy(uid, row)
       /\ row.product_id \in DOMAIN products
       /\ ~\E c \in chats : /\ c.order_id # Null
                            /\ row.order_id # Null
                            /\ c.buyer_id = row.buyer_id
                            /\ c.seller_id = row.seller_id
                            /\ c.order_id = row.order_id
    THEN [rows |-> chats \cup {[id |-> NewChatId, order_id |-> row.order_id,
                                product_id |-> row.product_id, buyer_id |-> row.buyer_id,
                                seller_id |-> row.seller_id, last_message_at |-> Now]},
          error |-> FALSE]
    ELSE [rows |-> chats, error |-> TRUE]

\* UPDATE chats SET last_message_at WHERE id = id, issued by uid
ChatsUpdate(uid, id, last_message_at) ==
    [rows |-> {IF c.id = id /\ ChatsPolicy(uid, c)
               THEN [c EXCEPT !.last_message_at = last_message_at]
               ELSE c : c \in chats},
     error |-> FALSE]

\* --------------------------------------------------- table messages (store)
\* POLICY "Participants can view chat messages"
MessagesSelectPolicy(uid, row) ==
    \E c \in chats : c.id = row.chat_id /\ (c.buyer_id = uid \/ c.seller_id = uid)

\* POLICY "Senders can update own messages": USING / WITH CHECK (sender_id = auth.uid())
MessagesUpdatePolicy(uid, row) == row.sender_id = uid

\* a row's id stands for its created_at too: DEFAULT now(), later rows are larger
NewMessageId == Cardinality(messages) + 1

\* .order('created_at', { ascending: true })
RECURSIVE Ascending(_)
Ascending(rows) ==
    IF rows = {} THEN <<>>
    ELSE LET m == CHOOSE x \in rows : \A y \in rows : x.id <= y.id
         IN <<m>> \o Ascending(rows \ {m})

\* SELECT * FROM messages WHERE chat_id = chatId ORDER BY created_at, as uid
MessagesSelect(uid, chatId) ==
    Ascending({m \in messages : m.chat_id = chatId /\ MessagesSelectPolicy(uid, m)})

\* INSERT INTO messages: POLICY "Participants can send messages"
MessagesInsert(uid, chat_id, sender_id, read_by) ==
    IF /\ sender_id = uid
       /\ \E c \in chats : c.id = chat_id /\ (c.buyer_id = uid \/ c.seller_id = uid)
    THEN [rows |-> messages \cup {[id |-> NewMessageId, chat_id |-> chat_id,
                                   sender_id |-> sender_id, read_by |-> read_by]},
          error |-> FALSE]
    ELSE [rows |-> messages, error |-> TRUE]

\* UPDATE messages SET read_by WHERE id = id, issued by uid: rows the policy
\* hides are not updated and raise no error
MessagesUpdate(uid, id, read_by) ==
    [rows |-> {IF m.id = id /\ MessagesUpdatePolicy(uid, m)
               THEN [m EXCEPT !.read_by = read_by]
               ELSE m : m \in messages},
     error |-> FALSE]

\* --------------------------------------- BuyerDashboard.handleMessageSeller
\* the select of the chat of (buyer, seller, product) with maybeSingle: data is
\* a row when exactly one row matches, and null when none or several do
MessageSellerSelect(b, p) ==
    /\ Len(hms[b]) < MaxChatCalls
    /\ p \in DOMAIN products
    /\ LET hit == {c \in ChatsSelect(b) : /\ c.buyer_id = b
                                          /\ c.seller_id = products[p].seller_id
                                          /\ c.product_id = p}
       IN hms' = [hms EXCEPT ![b] = Append(@, [product_id |-> p,
                                                seller_id |-> products[p].seller_id,
                                                existingChat |-> Cardinality(hit) = 1])]
    /\ UNCHANGED <<chats, messages, cm>>
    /\ UNCHANGED shopVars

\* loadChats of the ChatModal of u: the ids of the chats the store shows u
LoadChats(u) == {c.id : c \in ChatsSelect(u)}

\* if (!existingChat) insert; an error of the insert is thrown and logged.
\* Otherwise setShowChatModal(true): the ChatModal opens and loads its chats
MessageSellerWrite(b, net) ==
    /\ \E i \in DOMAIN hms[b] :
         LET c == hms[b][i]
             res == IF c.existingChat
                    THEN [rows |-> chats, error |-> FALSE]
                    ELSE ChatsInsert(b, [order_id |-> Null, product_id |-> c.product_id,
                                         buyer_id |-> b, seller_id |-> c.seller_id])
             ok == c.existingChat \/ (net /\ ~res.error)
         IN /\ chats' = IF ok THEN res.rows ELSE chats
            /\ hms' = [hms EXCEPT ![b] = SubSeq(@, 1, i - 1) \o SubSeq(@, i + 1, Len(@))]
            /\ cm' = IF ok /\ ~cm[b].isOpen
                     THEN [cm EXCEPT ![b].isOpen = TRUE, ![b].chats = LoadChats(b)']
                     ELSE cm
    /\ UNCHANGED messages
    /\ UNCHANGED shopVars

\* ---------------------------------------------------------------- ChatModal
\* the header's chats button: setShowChatModal(true), and useEffect[isOpen, user]
\* calls loadChats
OpenChats(u, net) ==
    /\ ~cm[u].isOpen
    /\ cm' = [cm EXCEPT ![u].isOpen = TRUE,
                        ![u].chats = IF net THEN LoadChats(u) ELSE @]
    /\ UNCHANGED <<chats, messages, hms>>
    /\ UNCHANGED shopVars

\* onClose: the modal renders nothing and keeps its state
CloseChats(u) ==
    /\ cm[u].isOpen
    /\ cm' = [cm EXCEPT ![u].isOpen = FALSE]
    /\ UNCHANGED <<chats, messages, hms>>
    /\ UNCHANGED shopVars

\* loadMessages(chatId) up to its first await: setLoading(true) and the select sent
StartLoad(m, chatId) ==
    [m EXCEPT !.loading = TRUE,
              !.loads = Append(@, [chatId |-> chatId, pc |-> "query", data |-> <<>>,
                                   unread |-> <<>>, seen |-> {}])]

\* the finally of loadMessages for the call at position i: setLoading(false)
EndLoad(m, i, ok) ==
    [m EXCEPT !.loading = FALSE,
              !.loads = SubSeq(@, 1, i - 1) \o SubSeq(@, i + 1, Len(@)),
              !.last = IF ok THEN [chatId |-> m.loads[i].chatId, seen |-> m.loads[i].seen]
                       ELSE @,
              !.failed = @ \/ ~ok]

\* subscribeToMessages(chatId): a channel is added; the function it returns,
\* which removes the channel, is dropped by useEffect[selectedChat]
Subscribe(subs, chatId) == subs \cup {chatId}

\* a click on a chat of the list: setSelectedChat(chat), and useEffect[selectedChat]
\* calls loadMessages and subscribeToMessages
SelectChat(u, chatId) ==
    /\ cm[u].isOpen
    /\ chatId \in cm[u].chats
    /\ chatId # cm[u].selectedChat
    /\ Len(cm[u].loads) < MaxLoads
    /\ cm' = [cm EXCEPT ![u] = [StartLoad(@, chatId) EXCEPT
                                   !.selectedChat = chatId,
                                   !.subs = Subscribe(@, chatId)]]
    /\ UNCHANGED <<chats, messages, hms>>
    /\ UNCHANGED shopVars

\* the callback of a channel for an INSERT notification: loadMessages(chatId)
Notified(u) ==
    /\ cm[u].notif # <<>>
    /\ Len(cm[u].loads) < MaxLoads
    /\ cm' = [cm EXCEPT ![u] = [StartLoad(@, Head(@.notif)) EXCEPT !.notif = Tail(@)]]
    /\ UNCHANGED <<chats, messages, hms>>
    /\ UNCHANGED shopVars

\* the store answers the select of loadMessages; an error is thrown, logged and
\* ends the call
LoadMessagesQuery(u, i, net) ==
    /\ i \in DOMAIN cm[u].loads
    /\ cm[u].loads[i].pc = "query"
    /\ cm' = [cm EXCEPT ![u] =
                IF net
                THEN [@ EXCEPT !.loads[i].pc = "data",
                               !.loads[i].data = MessagesSelect(u, cm[u].loads[i].chatId)]
                ELSE EndLoad(@, i, FALSE)]
    /\ UNCHANGED <<chats, messages, hms>>
    /\ UNCHANGED shopVars

\* the answer reaches the modal: setMessages(data), then markMessagesAsRead
\* sends its select
LoadMessagesSet(u, i) ==
    /\ i \in DOMAIN cm[u].loads
    /\ cm[u].loads[i].pc = "data"
    /\ cm' = [cm EXCEPT ![u].messages = cm[u].loads[i].data,
                        ![u].shown = cm[u].loads[i].chatId,
                        ![u].loads[i].pc = "unread"]
    /\ UNCHANGED <<chats, messages, hms>>
    /\ UNCHANGED shopVars

\* the messages of an answer that the loop of markMessagesAsRead updates:
\* if (!readBy.includes(user.id))
RECURSIVE Unread(_, _)
Unread(u, rows) ==
    IF rows = <<>> THEN <<>>
    ELSE (IF u \in Range(Head(rows).read_by) THEN <<>>
          ELSE <<[id |-> Head(rows).id, read_by |-> Head(rows).read_by]>>)
         \o Unread(u, Tail(rows))

\* the store answers the select of markMessagesAsRead (the messages of the chat
\* not sent by u); without an answer, or with nothing to update, loadMessages ends
MarkSelect(u, i, net) ==
    /\ i \in DOMAIN cm[u].loads
    /\ cm[u].loads[i].pc = "unread"
    /\ LET rows == Ascending({m \in messages : /\ m.chat_id = cm[u].loads[i].chatId
                                                /\ m.sender_id # u
                                                /\ MessagesSelectPolicy(u, m)})
           todo == IF net THEN Unread(u, rows) ELSE <<>>
           seen == IF net THEN {m.id : m \in Range(rows)} ELSE {}
           next == [cm[u] EXCEPT !.loads[i].pc = "mark",
                                 !.loads[i].unread = todo,
                                 !.loads[i].seen = seen,
                                 !.failed = @ \/ ~net]
       IN cm' = [cm EXCEPT ![u] = IF todo = <<>> THEN EndLoad(next, i, TRUE) ELSE next]
    /\ UNCHANGED <<chats, messages, hms>>
    /\ UNCHANGED shopVars

\* one update of the loop: read_by: [...readBy, user.id] of the answer's row;
\* its error is not looked at. After the last one loadMessages ends
MarkUpdate(u, i, net) ==
    /\ i \in DOMAIN cm[u].loads
    /\ cm[u].loads[i].pc = "mark"
    /\ LET msg == Head(cm[u].loads[i].unread)
           res == MessagesUpdate(u, msg.id, Append(msg.read_by, u))
           next == [cm[u] EXCEPT !.loads[i].unread = Tail(@), !.failed = @ \/ ~net]
       IN /\ messages' = IF net THEN res.rows ELSE messages
          /\ cm' = [cm EXCEPT ![u] = IF next.loads[i].unread = <<>>
                                     THEN EndLoad(next, i, TRUE) ELSE next]
    /\ UNCHANGED <<chats, hms>>
    /\ UNCHANGED shopVars

\* the INSERT notifications of a new message: one to every channel subscribed
\* to its chat by a user who may see it
Notify(chatId) ==
    [u \in Users |->
        IF chatId \in cm[u].subs /\ \E c \in ChatsSelect(u) : c.id = chatId
        THEN [cm[u] EXCEPT !.notif = Append(@, chatId)]
        ELSE cm[u]]

\* sendMessage: the insert of the message with read_by [user.id]; an error is
\* thrown and logged; then the update of the chat's last_message_at, whose
\* error is not looked at
SendMessage(u, net, net2) ==
    /\ cm[u].isOpen
    /\ cm[u].selectedChat # 0
    /\ Cardinality(messages) < MaxMessages
    /\ LET res == MessagesInsert(u, cm[u].selectedChat, u, <<u>>)
           ok == net /\ ~res.error
       IN /\ messages' = IF ok THEN res.rows ELSE messages
          /\ cm' = IF ok THEN Notify(cm[u].selectedChat) ELSE cm
          /\ chats' = IF ok /\ net2
                      THEN ChatsUpdate(u, cm[u].selectedChat, Cardinality(res.rows)).rows
                      ELSE chats
    /\ UNCHANGED hms
    /\ UNCHANGED shopVars

\* ------------------------------------------- specification: chats of buyers
NextChat ==
    \/ \E b \in Buyers, p \in CartProducts :
          Cardinality(chats) + Len(hms[b]) < MaxChats /\ MessageSellerSelect(b, p)
    \/ \E b \in Buyers, net \in BOOLEAN : MessageSellerWrite(b, net)
    \/ \E b \in Buyers, net \in BOOLEAN : OpenChats(b, net)
    \/ \E b \in Buyers : CloseChats(b)

SpecChat == Init /\ [][NextChat]_vars

\* --------------------------------- specification: the messages of two chats
\* a buyer and a seller with two chats, about two products of the seller. The
\* seller has opened the modal and selected the first chat, and that load has
\* ended; from there the seller only sends messages. The buyer does everything
\* the modal offers.
ChatUsers == {"b1"}
Senders == {"b1", "s1"}

InitMessages ==
    /\ products = SeedProducts
    /\ cart_items = {}
    /\ orders = {}
    /\ order_items = {}
    /\ atc = [b \in Buyers |-> IdleCall]
    /\ view = [b \in Buyers |-> "page"]
    /\ cartView = [b \in Buyers |-> <<>>]
    /\ ckItems = [b \in Buyers |-> <<>>]
    /\ run = [b \in Buyers |-> IdleRun]
    /\ log = [b \in Buyers |-> <<>>]
    /\ writers = [p \in ProductIds |-> {}]
    /\ adds = 0
    /\ edits = 0
    /\ cartLog = [b \in Buyers |-> NoCartLog]
    /\ statusBy = {}
    /\ chats = {[id |-> 1, order_id |-> Null, product_id |-> "p1", buyer_id |-> "b1",
                 seller_id |-> "s1", last_message_at |-> 0],
                [id |-> 2, order_id |-> Null, product_id |-> "p3", buyer_id |-> "b1",
                 seller_id |-> "s1", last_message_at |-> 0]}
    /\ messages = {}
    /\ hms = [b \in Buyers |-> <<>>]
    /\ cm = [u \in Users |->
               IF u = "s1"
               THEN [IdleModal EXCEPT !.isOpen = TRUE, !.chats = {1, 2}, !.selectedChat = 1,
                                      !.subs = {1}, !.shown = 1,
                                      !.last = [chatId |-> 1, seen |-> {}]]
               ELSE IdleModal]

NextMessages ==
    \/ \E u \in ChatUsers, net \in BOOLEAN : OpenChats(u, net)
    \/ \E u \in ChatUsers : CloseChats(u)
    \/ \E u \in ChatUsers, c \in 1..MaxChats : SelectChat(u, c)
    \/ \E u \in ChatUsers : Notified(u)
    \/ \E u \in ChatUsers, i \in 1..MaxLoads, net \in BOOLEAN : LoadMessagesQuery(u, i, net)
    \/ \E u \in ChatUsers, i \in 1..MaxLoads : LoadMessagesSet(u, i)
    \/ \E u \in ChatUsers, i \in 1..MaxLoads, net \in BOOLEAN : MarkSelect(u, i, net)
    \/ \E u \in ChatUsers, i \in 1..MaxLoads, net \in BOOLEAN : MarkUpdate(u, i, net)
    \/ \E u \in Senders, net \in BOOLEAN, net2 \in BOOLEAN : SendMessage(u, net, net2)

SpecMessages == InitMessages /\ [][NextMessages]_vars

\* ------------------------------------------------------------ properties
ItemsOf(orderId) == {r \in order_items : r.order_id = orderId}

\* the k-th row of a set of rows in the order of their insertion
RowAt(rows, k) == CHOOSE r \in rows : Cardinality({x \in rows : x.id < r.id}) = k - 1

RECURSIVE SumTotalPrice(_)
SumTotalPrice(rows) ==
    IF rows = {} THEN 0
    ELSE LET r == CHOOSE x \in rows : TRUE IN r.total_price + SumTotalPrice(rows \ {r})

NoErrorLogged(b) == \A k \in DOMAIN log[b] : ~log[b][k].err

\* C1: a run that ended with success created exactly one order per seller among
\* its items, and the order_items of each order are, line for line, the items
\* of that order's seller.
Thm_C1 ==
    \A b \in Buyers : run[b].pc = "done" =>
        LET items == run[b].items
            created == RunOrders(b)
            sellers == {items[i].product.seller_id : i \in DOMAIN items}
        IN /\ Cardinality(created) = Cardinality(sellers)
           /\ \A id \in created : \E o \in orders : o.id = id
           /\ \A sid \in sellers :
                LET mine == {o \in orders : o.id \in created /\ o.seller_id = sid}
                    lines == SelectSeq(items, LAMBDA l : l.product.seller_id = sid)
                IN /\ Cardinality(mine) = 1
                   /\ \A o \in mine :
                        /\ Cardinality(ItemsOf(o.id)) = Len(lines)
                        /\ \A k \in 1..Len(lines) :
                             /\ RowAt(ItemsOf(o.id), k).product_id = lines[k].product_id
                             /\ RowAt(ItemsOf(o.id), k).quantity = lines[k].quantity

\* a successful run over three lines, the first and the third of one seller
Witness_C1 ==
    \E b \in Buyers :
        /\ run[b].pc = "done"
        /\ Len(run[b].items) = 3
        /\ run[b].items[1].product.seller_id = run[b].items[3].product.seller_id
        /\ run[b].items[1].product.seller_id # run[b].items[2].product.seller_id

\* C2: once a run has ended, with success or with failure, each order it stored
\* has total_amount = the sum of total_price of the order's stored items, and
\* each of these items has total_price = price_per_unit * quantity.
CE_C2 ==
    \A b \in Buyers : run[b].pc \in {"done", "failed"} =>
        \A o \in {x \in orders : x.id \in RunOrders(b)} :
            /\ o.total_amount = SumTotalPrice(ItemsOf(o.id))
            /\ \A r \in ItemsOf(o.id) : r.total_price = r.price_per_unit * r.quantity

\* C3: after a run that ended with success, every call of which returned
\* without error, each line of quantity q and snapshot stock s whose product no
\* other user wrote leaves the stored stock_quantity at s - q.
CE_C3 ==
    \A b \in Buyers : (run[b].pc = "done" /\ NoErrorLogged(b)) =>
        \A i \in DOMAIN run[b].items :
            LET l == run[b].items[i] IN
            writers[l.product_id] \subseteq {b} =>
                products[l.product_id].stock_quantity = l.product.stock_quantity - l.quantity

\* C4: the step of a run that reports success leaves the buyer without any
\* cart line in the store.
CE_C4 ==
    [][\A b \in Buyers :
          (run[b].pc # "done" /\ run'[b].pc = "done") => {r \in cart_items' : r.buyer_id = b} = {}]_vars

\* C5: a run reports success only if its order inserts, order-items inserts
\* and stock updates all returned without error.
CE_C5 ==
    \A b \in Buyers : run[b].pc = "done" =>
        \A k \in DOMAIN log[b] :
            log[b][k].call \in {"orders.insert", "order_items.insert", "products.update"}
                => ~log[b][k].err

\* C6: a run that failed at the order insert or the order-items insert of its
\* second seller group leaves the first group's order and order items in the
\* store, has issued no delete, and leaves every cart line the buyer had at
\* submit in the cart.
Thm_C6 ==
    \A b \in Buyers : (run[b].pc = "failed" /\ run[b].gi = 2) =>
        LET g == Groups(b)[1]
            first == log[b][1].ref
        IN /\ \E o \in orders : o.id = first /\ o.buyer_id = b /\ o.seller_id = g.seller_id
           /\ Cardinality(ItemsOf(first)) = Len(g.items)
           /\ \A k \in 1..Len(g.items) :
                RowAt(ItemsOf(first), k).product_id = g.items[k].product_id
           /\ \A k \in DOMAIN log[b] : log[b][k].call # "cart_items.delete"
           /\ \A r0 \in run[b].cart0 :
                \E r \in cart_items :
                    /\ r.id = r0.id /\ r.buyer_id = b /\ r.product_id = r0.product_id
                    /\ r.quantity >= r0.quantity

\* a run over two seller groups whose second order insert (or order-items
\* insert) returned an error
Witness_C6 ==
    \E b \in Buyers :
        /\ run[b].pc = "failed"
        /\ run[b].gi = 2
        /\ Len(Groups(b)) = 2
        /\ run[b].cart0 # {}
        /\ log[b][Len(log[b])].err

\* C7: a run issues no store call after one of its calls returned an error.
CE_C7 ==
    \A b \in Buyers :
        \A i, j \in DOMAIN log[b] : i < j => ~log[b][i].err

\* C8: a product row is changed only by an update of the seller who owns it;
\* the stock update of a buyer's checkout leaves the row as it was.
Thm_C8 ==
    \A p \in DOMAIN products : writers[p] \subseteq {products[p].seller_id}

\* a buyer's run has issued its stock update of a product that so far only the
\* product's seller changed
Witness_C8 ==
    \E b \in Buyers : \E k \in DOMAIN log[b] :
        /\ log[b][k].call = "products.update"
        /\ ~log[b][k].err
        /\ writers[log[b][k].ref] = {products[log[b][k].ref].seller_id}

\* two runs of different buyers, both ended with success, with a line of the
\* same product and the same snapshot stock, the seller not having edited it
SameSnapshotRuns(b1, b2, i1, i2) ==
    /\ b1 # b2
    /\ run[b1].pc = "done" /\ run[b2].pc = "done"
    /\ i1 \in DOMAIN run[b1].items /\ i2 \in DOMAIN run[b2].items
    /\ run[b1].items[i1].product_id = run[b2].items[i2].product_id
    /\ run[b1].items[i1].product.stock_quantity = run[b2].items[i2].product.stock_quantity
    /\ writers[run[b1].items[i1].product_id] \cap Sellers = {}

Thm_C10 ==
    \A p \in DOMAIN products : products[p].stock_quantity >= 0

\* a run has issued the stock update of a line whose quantity exceeds its
\* snapshot stock, and the call reached the store
Witness_C10 ==
    \E b \in Buyers : \E i \in DOMAIN run[b].items :
        /\ run[b].items[i].quantity > run[b].items[i].product.stock_quantity
        /\ run[b].pc \in {"clear", "done"}
        /\ NoErrorLogged(b)

\* a run one of whose lines asks for more than the line's snapshot stock
OverStock(b) ==
    \E i \in DOMAIN run[b].items :
        run[b].items[i].quantity > run[b].items[i].product.stock_quantity

\* C11: in a run with a line whose quantity exceeds its snapshot stock, the
\* store accepts the order insert the run is about to issue (with an order
\* number no order holds) and the order-items insert it is about to issue, and
\* a run of this kind that ended with success stored an order with all of its
\* items for every seller of its lines.
Thm_C11 ==
    \A b \in Buyers : OverStock(b) =>
        LET g == Groups(b)[run[b].gi] IN
        /\ run[b].pc = "order" =>
             ~OrdersInsert(b, OrderRow(b, g.seller_id, g.items, Cardinality(orders) + 1,
                                       run[b].paymentMethod)).error
        /\ run[b].pc = "items" =>
             ~OrderItemsInsert(b, orderItems(run[b].order_id, g.items)).error
        /\ run[b].pc = "done" =>
             \A i \in DOMAIN run[b].items :
                \E o \in orders :
                    /\ o.id \in RunOrders(b)
                    /\ o.seller_id = run[b].items[i].product.seller_id
                    /\ \E r \in ItemsOf(o.id) :
                         /\ r.product_id = run[b].items[i].product_id
                         /\ r.quantity = run[b].items[i].quantity

\* a run that ended with success stored the order item of a line of quantity 2
\* against a snapshot stock of 1, the store's stock being 1 as well
Witness_C11 ==
    \E b \in Buyers : \E i \in DOMAIN run[b].items :
        /\ run[b].pc = "done"
        /\ run[b].items[i].quantity > run[b].items[i].product.stock_quantity
        /\ run[b].items[i].quantity > products[run[b].items[i].product_id].stock_quantity
        /\ \E r \in order_items :
             /\ r.order_id \in RunOrders(b)
             /\ r.product_id = run[b].items[i].product_id
             /\ r.quantity = run[b].items[i].quantity

\* the place of a seller's group among the groups of the buyer's run
GroupIndex(b, sid) == CHOOSE i \in DOMAIN Groups(b) : Groups(b)[i].seller_id = sid

\* C12: when a run failed in its seller group k >= 2 and the resubmission of
\* the same items ended with success, every call of it without error, the two
\* runs together stored two orders,
\* each with its own order items, for every seller of groups 1..k-1 and one
\* order for every other seller.
CE_C12 ==
    \A b \in Buyers : (run[b].pc = "done" /\ NoErrorLogged(b) /\ run[b].prev.k >= 2) =>
        \A sid \in {run[b].items[i].product.seller_id : i \in DOMAIN run[b].items} :
            LET both == {o \in orders : /\ o.id \in run[b].prev.orders \cup RunOrders(b)
                                        /\ o.seller_id = sid}
                lines == Len(Groups(b)[GroupIndex(b, sid)].items)
            IN /\ Cardinality(both) = IF GroupIndex(b, sid) < run[b].prev.k THEN 2 ELSE 1
               /\ \A o \in both : Cardinality(ItemsOf(o.id)) = lines

\* C13: the cart delete that ends a run, when it returns without error, removes
\* from the cart store exactly the rows of the acting buyer: every row of the
\* buyer, among the items of the checkout or not, and no row of another buyer.
Thm_C13 ==
    [][\A b \in Buyers :
          (/\ run[b].pc = "clear"
           /\ run'[b].pc = "done"
           /\ ~log'[b][Len(log'[b])].err)
          => cart_items' = {r \in cart_items : r.buyer_id # b}]_vars

\* a run ended with success by a cart delete that returned without error, the
\* buyer's cart at submit held a row that the items of the checkout did not,
\* the buyer has no row left and the other buyer's row is still there
Witness_C13 ==
    \E b \in Buyers :
        /\ run[b].pc = "done"
        /\ log[b][Len(log[b])].call = "cart_items.delete"
        /\ ~log[b][Len(log[b])].err
        /\ \E r0 \in run[b].cart0 : \A i \in DOMAIN run[b].items : run[b].items[i].id # r0.id
        /\ \A r \in cart_items : r.buyer_id # b
        /\ \E r \in cart_items : r.buyer_id \in Buyers \ {b}

\* the seller group that the k-th call of the buyer's run, an order insert, is for
GroupOfCall(b, k) ==
    Cardinality({j \in 1..k : log[b][j].call = "orders.insert"})

\* C14: every order in the store has status pending, payment_status pending if
\* its payment method is 'cod' and paid otherwise, and one address as shipping
\* and billing address; and every order that a buyer's run created has the
\* buyer as buyer_id, the key of its seller group as seller_id and the payment
\* method and address of the form.
Thm_C14 ==
    /\ \A o \in orders :
         /\ o.status = "pending"
         /\ o.payment_status = IF o.payment_method = "cod" THEN "pending" ELSE "paid"
         /\ o.shipping_address = o.billing_address
    /\ \A b \in Buyers : \A k \in DOMAIN log[b] :
         (log[b][k].call = "orders.insert" /\ ~log[b][k].err) =>
            \E o \in orders :
                /\ o.id = log[b][k].ref
                /\ o.buyer_id = b
                /\ o.seller_id = groupedBySeller(run[b].items)[GroupOfCall(b, k)].seller_id
                /\ o.payment_method = run[b].paymentMethod
                /\ o.shipping_address = <<"address", b>>

\* a run paid by 'upi' ended with success and its order is paid, an order of
\* another run being 'cod' and pending
Witness_C14 ==
    \E b \in Buyers :
        /\ run[b].pc = "done"
        /\ run[b].paymentMethod = "upi"
        /\ \E o1, o2 \in orders :
             /\ o1.payment_method = "upi" /\ o1.payment_status = "paid"
             /\ o1.id \in RunOrders(b)
             /\ o2.payment_method = "cod" /\ o2.payment_status = "pending"

\* C15: a run that ended with success has called onSuccess once and then
\* onClose, and raised no alert; a run that failed has raised one alert, the
\* same whatever group failed and whatever orders the run created, and called
\* neither callback; a run in progress has signalled nothing.
Thm_C15 ==
    \A b \in Buyers :
        /\ run[b].pc = "done" => run[b].signals = <<"onSuccess", "onClose">>
        /\ run[b].pc = "failed" => run[b].signals = <<"alert">>
        /\ run[b].pc \in {"order", "items", "stock", "clear"} => run[b].signals = <<>>

\* a run that failed in its second group, its first group's order stored, has
\* raised its alert
Witness_C15 ==
    \E b \in Buyers :
        /\ run[b].pc = "failed"
        /\ run[b].gi = 2
        /\ RunOrders(b) # {}
        /\ run[b].signals = <<"alert">>

\* C16: no two orders in the store share an order_number, and the order insert
\* of a run whose generated order number is held by a stored order adds no
\* order and makes the run fail.
Thm_C16 ==
    [][/\ \A o1, o2 \in orders' : o1.order_number = o2.order_number => o1 = o2
       /\ \A b \in Buyers :
            (/\ run[b].pc = "order"
             /\ run'[b] # run[b]
             /\ run'[b].orderNumber \in {o.order_number : o \in orders})
            => (orders' = orders /\ run'[b].pc = "failed")]_vars

\* a run failed at the order insert of its group with an order number that an
\* order of another buyer holds, every call reaching the store
Witness_C16 ==
    \E b \in Buyers :
        /\ run[b].pc = "failed"
        /\ log[b][Len(log[b])].call = "orders.insert"
        /\ \E o \in orders : o.order_number = run[b].orderNumber /\ o.buyer_id # b

\* C17: the cart store holds at most one row per buyer and product.
Thm_C17 ==
    \A r1, r2 \in cart_items :
        (r1.buyer_id = r2.buyer_id /\ r1.product_id = r2.product_id) => r1 = r2

\* two adds of one product by one buyer were in flight together, neither
\* having found a line: one has inserted the line and the other is about to
\* insert it again
Witness_C17 ==
    \E b \in Buyers : \E i \in DOMAIN atc[b] :
        /\ ~atc[b][i].found
        /\ \E r \in cart_items : r.buyer_id = b /\ r.product_id = atc[b][i].product_id

RECURSIVE CallsOfGroups(_)
CallsOfGroups(gs) ==
    IF gs = <<>> THEN <<>>
    ELSE <<<<"orders.insert", "">>, <<"order_items.insert", "">>>>
         \o [i \in 1..Len(Head(gs).items) |-> <<"products.update", Head(gs).items[i].product_id>>]
         \o CallsOfGroups(Tail(gs))

CallsOfRun(b) ==
    CallsOfGroups(groupedBySeller(run[b].items)) \o <<<<"cart_items.delete", "">>>>

CallsLogged(b) ==
    [k \in DOMAIN log[b] |->
        <<log[b][k].call,
          IF log[b][k].call = "products.update" THEN log[b][k].ref ELSE "">>]

\* C19: the calls a run has issued so far are the first calls of the sequence
\* order insert, order-items insert, one stock update per line, group after
\* group, and the cart delete last; a run in progress has exactly one next
\* call, the one after those; a run that ended with success issued them all.
Thm_C19 ==
    \A b \in Buyers : run[b].pc # "idle" =>
        /\ Len(log[b]) <= Len(CallsOfRun(b))
        /\ CallsLogged(b) = SubSeq(CallsOfRun(b), 1, Len(log[b]))
        /\ run[b].pc = "done" => Len(log[b]) = Len(CallsOfRun(b))
        /\ run[b].pc \in {"order", "items", "stock", "clear"} =>
             /\ Len(log[b]) < Len(CallsOfRun(b))
             /\ CallsOfRun(b)[Len(log[b]) + 1][1] =
                  CASE run[b].pc = "order" -> "orders.insert"
                    [] run[b].pc = "items" -> "order_items.insert"
                    [] run[b].pc = "stock" -> "products.update"
                    [] run[b].pc = "clear" -> "cart_items.delete"

\* a run over two seller groups and three lines ended with success after its
\* eight calls
Witness_C19 ==
    \E b \in Buyers :
        /\ run[b].pc = "done"
        /\ Len(groupedBySeller(run[b].items)) = 2
        /\ Len(run[b].items) = 3
        /\ Len(log[b]) = 8

InProgress(b) == run[b].pc \in {"order", "items", "stock", "clear"}

\* C20: every store call returning, a run that was submitted eventually ends,
\* with success or with failure; the loading flag is set exactly while the run
\* is in progress, so it is reset in both outcomes; and no step takes a run in
\* progress anywhere but to its next call or to one of the two ends, its items
\* unchanged.
Thm_C20 ==
    /\ \A b \in Buyers : InProgress(b) ~> (run[b].pc \in {"done", "failed"} /\ ~run[b].loading)
    /\ [](\A b \in Buyers : run[b].loading <=> InProgress(b))
    /\ [][\A b \in Buyers :
            InProgress(b) => /\ run'[b].pc \in {"order", "items", "stock", "clear", "done", "failed"}
                             /\ run'[b].items = run[b].items]_vars

\* one run has failed and its resubmission has ended with success, the loading
\* flag reset
Witness_C20 ==
    \E b \in Buyers :
        /\ run[b].pc = "done"
        /\ ~run[b].loading
        /\ run[b].signals # <<>>
        /\ Cardinality(orders) > Cardinality(RunOrders(b))

\* C21: every order item that a buyer's run stored has as price_per_unit the
\* price of its cart line's snapshot, whatever the product's stored price is.
Thm_C21 ==
    \A b \in Buyers : \A k \in DOMAIN log[b] :
        (log[b][k].call = "order_items.insert" /\ ~log[b][k].err) =>
            LET g == groupedBySeller(run[b].items)[GroupOfCall(b, k)]
                rows == ItemsOf(log[b][k].ref)
            IN /\ Cardinality(rows) = Len(g.items)
               /\ \A i \in DOMAIN g.items :
                    /\ RowAt(rows, i).product_id = g.items[i].product_id
                    /\ RowAt(rows, i).price_per_unit = g.items[i].product.price

\* the seller raised the product's price after one buyer had loaded the cart
\* and before the other did; the buyer with the old snapshot inserted the order
\* after the other buyer, and the order item has the old price
Witness_C21 ==
    \E b1, b2 \in Buyers : \E r1, r2 \in order_items :
        /\ b1 # b2
        /\ r1.order_id \in RunOrders(b1) /\ r2.order_id \in RunOrders(b2)
        /\ r2.order_id < r1.order_id
        /\ r1.product_id = r2.product_id
        /\ r2.price_per_unit = products[r2.product_id].price
        /\ r1.price_per_unit # products[r1.product_id].price
        /\ r1.price_per_unit = run[b1].items[1].product.price

\* C22: while a run is in progress loading is true, and a step taken while
\* loading is true never starts a run (the run keeps its items and its user,
\* its group index does not go back and its calls so far stay logged), so one
\* form never has two runs in progress; a submit with nobody signed in writes
\* nothing to the store, makes no store call and leaves loading false
Thm_C22 ==
    /\ [](\A b \in Buyers : InProgress(b) => run[b].loading)
    /\ [][\A b \in Buyers :
            /\ run[b].loading =>
                  /\ run'[b].items = run[b].items
                  /\ run'[b].user = run[b].user
                  /\ run'[b].gi >= run[b].gi
                  /\ Len(log'[b]) >= Len(log[b])
                  /\ SubSeq(log'[b], 1, Len(log[b])) = log[b]
            /\ (run'[b].user = NoUser /\ run[b].user # NoUser) =>
                  /\ ~run[b].loading /\ ~run'[b].loading
                  /\ log'[b] = log[b]
                  /\ <<products, cart_items, orders, order_items>>' =
                       <<products, cart_items, orders, order_items>>]_vars

\* a submit with nobody signed in, on the form of a buyer whose first run
\* failed in its second seller group and whose second run, submitted once the
\* first had ended, failed too
Witness_C22 ==
    \E b \in Buyers :
        /\ run[b].user = NoUser
        /\ run[b].pc = "failed"
        /\ run[b].prev.k = 2
        /\ ~run[b].loading

\* the modal of u is at rest: no loadMessages call in flight, no notification
\* waiting, and no store call of a loadMessages call has failed
AtRest(u) == cm[u].loads = <<>> /\ cm[u].notif = <<>> /\ ~cm[u].failed

\* C23: every INSERT notification makes the modal fetch the chat's whole list,
\* so once the fetches have completed (the modal is at rest) the displayed list
\* is the store's messages of the chat fetched last, in ascending creation order
CE_C23 ==
    \A u \in Users :
        (AtRest(u) /\ cm[u].shown # 0) =>
            cm[u].messages = MessagesSelect(u, cm[u].shown)

\* C24: at rest the displayed list holds only messages of the selected chat,
\* and the modal has at most one insert subscription
CE_C24 ==
    \A u \in Users :
        (AtRest(u) /\ cm[u].selectedChat # 0) =>
            /\ \A m \in Range(cm[u].messages) : m.chat_id = cm[u].selectedChat
            /\ Cardinality(cm[u].subs) <= 1

\* C27: after a loadMessages call of u for a chat has completed, no store call
\* of its modal having failed, every message
\* of that chat not sent by u that its markMessagesAsRead was answered has u in
\* read_by; u is at most once in any read_by; and the messages u sent have the
\* read_by they were inserted with
CE_C27 ==
    \A u \in Users :
        /\ \A m \in messages :
              (~cm[u].failed /\ m.chat_id = cm[u].last.chatId /\ m.id \in cm[u].last.seen) =>
                  u \in Range(m.read_by)
        /\ \A m \in messages :
              Cardinality({i \in DOMAIN m.read_by : m.read_by[i] = u}) <= 1
        /\ \A m \in messages : m.sender_id = u => m.read_by = <<u>>

\* C28: the store holds at most one chat for every (buyer, seller, product)
CE_C28 ==
    \A c \in chats : \A d \in chats :
        (c.buyer_id = d.buyer_id /\ c.seller_id = d.seller_id /\ c.product_id = d.product_id)
            => c.id = d.id

\* the buyer's cart lines for a product
LinesOf(b, p) == {r \in cart_items : r.buyer_id = b /\ r.product_id = p}

\* C25: when n handleAddToCart calls of a buyer for a product have completed
\* without an error, and nothing else has written the cart, the buyer's line
\* for the product has quantity n (and there is no line when n = 0)
CE_C25 ==
    \A b \in Buyers : \A p \in ProductIds :
        IF cartLog[b].added[p] = 0
        THEN LinesOf(b, p) = {}
        ELSE \E r \in LinesOf(b, p) :
                LinesOf(b, p) = {r} /\ r.quantity = cartLog[b].added[p]

\* C26: every cart line has a quantity of at least 1; updateQuantity sends no
\* write with a quantity below 1; handleAddToCart sends only an insert with
\* quantity 1 or an update with a quantity of at least 2, one more than the
\* quantity it read
Thm_C26 ==
    /\ \A r \in cart_items : r.quantity >= 1
    /\ \A b \in Buyers : \A w \in cartLog[b].sent :
          /\ w.quantity >= 1
          /\ w.by = "handleAddToCart" =>
                (w.quantity = 1 <=> w.call = "insert")
    /\ \A b \in Buyers : \A i \in DOMAIN cartView[b] : cartView[b][i].quantity >= 1

\* a buyer's updateQuantity has sent quantity 1 (the - button on a line of
\* quantity 2) and quantity 2, the buyer's handleAddToCart has sent an insert
\* and an update, and the buyer's cart modal shows a line of quantity 1
Witness_C26 ==
    \E b \in Buyers :
        /\ \E w \in cartLog[b].sent : w.by = "updateQuantity" /\ w.quantity = 1
        /\ \E w \in cartLog[b].sent : w.by = "updateQuantity" /\ w.quantity = 2
        /\ \E w \in cartLog[b].sent : w.by = "handleAddToCart" /\ w.call = "update"
        /\ \E w \in cartLog[b].sent : w.by = "handleAddToCart" /\ w.call = "insert"
        /\ view[b] = "cart"
        /\ \E i \in DOMAIN cartView[b] : cartView[b][i].quantity = 1

\* C29: a step changes at most one order, and of that order only the status,
\* to one of the five values, in an updateOrderStatus of the order's seller;
\* such a step leaves the order items, the products and every other order as
\* they were; and no order was ever changed by an updateOrderStatus of a user
\* who is not its seller
Thm_C29 ==
    /\ [](\A w \in statusBy : \A o \in orders : o.id = w.id => o.seller_id = w.by)
    /\ [][\A o \in orders :
            \/ o \in orders'
            \/ /\ [id |-> o.id, by |-> o.seller_id] \in statusBy'
               /\ edits' = edits + 1
               /\ \E status \in OrderStatuses : orders' = (orders \ {o}) \cup {[o EXCEPT !.status = status]}
               /\ orders \ {o} \subseteq orders'
               /\ order_items' = order_items
               /\ products' = products
               /\ cart_items' = cart_items]_vars

\* two orders of one seller, of two buyers: the seller has set one to delivered,
\* the other is as it was inserted
Witness_C29 ==
    \E o1 \in orders : \E o2 \in orders :
        /\ o1.id # o2.id
        /\ o1.seller_id = o2.seller_id
        /\ o1.buyer_id # o2.buyer_id
        /\ o1.status = "delivered"
        /\ [id |-> o1.id, by |-> o1.seller_id] \in statusBy
        /\ o2.status = "pending"
        /\ ItemsOf(o1.id) # {} /\ ItemsOf(o2.id) # {}

\* C30: every order item references an order and a product that are in the
\* store, and no step deletes a product that an order item references
Thm_C30 ==
    /\ [](\A r \in order_items :
            /\ \E o \in orders : o.id = r.order_id
            /\ r.product_id \in DOMAIN products)
    /\ [][\A r \in order_items : r.product_id \in DOMAIN products']_vars

\* the seller has deleted the two other products, and the product that an
\* order item references is still in the store: its delete was rejected or
\* not yet tried
Witness_C30 ==
    /\ DOMAIN products = {StockProduct}
    /\ \E r \in order_items : r.product_id = StockProduct
    /\ \E b \in Buyers : run[b].pc = "done"

====
